---------------------------- MODULE Spec2Model ----------------------------
(***************************************************************************)
(* Model of the weather fetcher src/src/main.rs.                           *)
(*                                                                         *)
(* Three parts of the program are modelled, each with its own              *)
(* specification over the same variables:                                  *)
(*   Spec / FairSpec  main: the two buffer_unordered fetch passes, the     *)
(*                    collection of their results and the emission of the  *)
(*                    report;                                              *)
(*   SpecAgg          fetch_and_summarize_forecast: the daily aggregation  *)
(*                    of one forecast response;                            *)
(*   SpecCur          build_current_out;                                   *)
(*   SpecLabel        utc_offset_label.                                    *)
(*                                                                         *)
(* Representation.  A Rust String is a sequence of one-character strings.  *)
(* An f64 temperature read from the provider is an integer number of       *)
(* hundredths of the configured unit; a Celsius value is an integer number *)
(* of 1/900 degree, so that the three conversions of to_celsius are exact. *)
(* A chrono NaiveDate is its number of days since 1970-01-01 (the order    *)
(* and the equality of dates are those of the day numbers), a time of day  *)
(* its hour and minute.                                                    *)
(***************************************************************************)
EXTENDS Integers, Sequences, FiniteSets, TLC

VARIABLES
    \* ---- main
    cities,        \* cfg.app.cities
    args_out,      \* args.out: "file" (Some(path)) or "stdout" (None)
    pc,            \* position of main
    cur_issued,    \* items pulled from the stream of the current pass
    fc_issued,     \* items pulled from the stream of the forecast pass
    inflight,      \* requests sent and not yet completed
    cur_results,   \* Vec<Result<CurrentOut>> collected at line 178
    fc_results,    \* Vec<Result<CityForecastOut>> collected at line 197
    current,       \* Vec<CurrentOut> after line 181
    forecasts,     \* Vec<CityForecastOut> after line 200
    stdout,        \* the documents println! printed
    file,          \* the documents std::fs::write wrote
    \* ---- fetch_and_summarize_forecast
    fc,            \* the parsed ForecastResp
    units,         \* cfg.openweather.units, lower-cased
    agg_pc,        \* position of the aggregation
    agg_rest,      \* the entries of fc.list the first loop has not taken yet
    by_day,        \* HashMap<NaiveDate, Vec<(f64, String)>>
    days_out,      \* the Vec<ForecastDayOut> returned
    \* ---- build_current_out
    cur,           \* the parsed CurrentResp
    cur_pc,        \* position of build_current_out
    cur_out,       \* the CurrentOut returned
    \* ---- utc_offset_label
    label_secs,    \* its argument, an i32
    build,         \* "debug" or "release": integer overflow panics or wraps
    label_pc,      \* position of utc_offset_label
    label_out      \* the String returned

runVars == <<cities, args_out, pc, cur_issued, fc_issued, inflight,
             cur_results, fc_results, current, forecasts, stdout, file>>
aggVars == <<fc, agg_pc, agg_rest, by_day, days_out>>
curVars == <<cur, cur_pc, cur_out>>
labelVars == <<label_secs, build, label_pc, label_out>>
vars == <<runVars, aggVars, curVars, labelVars, units>>
notRunVars == <<aggVars, curVars, labelVars, units>>

None == "none"

(***************************************************************************)
(* Bounds of the model.                                                    *)
(***************************************************************************)
MaxCities == 2      \* longest list of arbitrary city queries
MaxExtra == 1       \* cities beyond the window in the long lists
MaxSamples == 3     \* longest forecast list of arbitrary entries
MaxDays == 6        \* most days in a one-sample-per-day forecast list

(***************************************************************************)
(* Integer helpers.                                                        *)
(***************************************************************************)
SetMin(S) == CHOOSE x \in S : \A y \in S : x <= y
SetMax(S) == CHOOSE x \in S : \A y \in S : x >= y
Abs(n) == IF n < 0 THEN -n ELSE n

\* Rust's / and % on integers truncate toward zero.
\* (b > 0; written without negating a, which may be i32::MIN).
RustDiv(a, b) == IF a >= 0 \/ a % b = 0 THEN a \div b ELSE (a \div b) + 1
RustRem(a, b) == a - b * RustDiv(a, b)

I32Max == 2147483647
I32Min == -I32Max - 1

(***************************************************************************)
(* Utils (lines 323-351).                                                  *)
(***************************************************************************)
\* city.split(',').next(): the text before the first comma.
FirstField(s) ==
    LET commas == {i \in 1..Len(s) : s[i] = ","}
    IN  IF commas = {} THEN s ELSE SubSeq(s, 1, SetMin(commas) - 1)

\* str::trim
Trim(s) ==
    LET solid == {i \in 1..Len(s) : s[i] # " "}
    IN  IF solid = {} THEN <<>> ELSE SubSeq(s, SetMin(solid), SetMax(solid))

label_from_query(city) == Trim(FirstField(city))

\* char::to_uppercase on the characters the model uses.
ToUpper(c) ==
    CASE c = "r" -> "R"
      [] c = "c" -> "C"
      [] c = "a" -> "A"
      [] c = "i" -> "I"
      [] c = "n" -> "N"
      [] OTHER -> c

title(s) == IF s = <<>> THEN <<>> ELSE <<ToUpper(Head(s))>> \o Tail(s)

Unknown == <<"U", "n", "k", "n", "o", "w", "n">>

\* entry.weather.get(0).map(|w| title(&w.description)).unwrap_or("Unknown")
ConditionOf(weather) ==
    IF weather = <<>> THEN Unknown ELSE title(weather[1].description)

\* value in hundredths of the unit, result in 1/900 degree Celsius.
to_celsius(value, u) ==
    CASE u = "metric" -> 9 * value
      [] u = "imperial" -> (value - 3200) * 5
      [] u = "standard" -> (value - 27315) * 9
      [] OTHER -> 9 * value

\* i32::abs: overflows on i32::MIN, which panics in a debug build and wraps
\* in a release build.
I32AbsOverflows(secs) == secs = I32Min
I32WrappingAbs(secs) == IF secs = I32Min THEN I32Min ELSE Abs(secs)

Digit(d) == <<"0", "1", "2", "3", "4", "5", "6", "7", "8", "9">>[d + 1]

RECURSIVE NatDisplay(_)
NatDisplay(n) ==
    IF n < 10 THEN <<Digit(n)>> ELSE NatDisplay(n \div 10) \o <<Digit(n % 10)>>

\* format!("{n}") of an i32
IntDisplay(n) == IF n < 0 THEN <<"-">> \o NatDisplay(-n) ELSE NatDisplay(n)

\* format!("{n:02}") of an i32: zero-padded to a width of 2, sign included.
IntDisplay02(n) ==
    IF n >= 0 /\ n < 10 THEN <<"0">> \o NatDisplay(n) ELSE IntDisplay(n)

\* The result of utc_offset_label once abs is known (lines 336, 338-340).
OffsetLabelFrom(secs, abs) ==
    LET sign == IF secs >= 0 THEN "+" ELSE "-"
        hours == RustDiv(abs, 3600)
        mins == RustDiv(RustRem(abs, 3600), 60)
    IN  IF mins = 0
        THEN <<"U", "T", "C", sign>> \o IntDisplay(hours)
        ELSE <<"U", "T", "C", sign>> \o IntDisplay(hours) \o <<":">>
                 \o IntDisplay02(mins)

\* utc_offset_label in a build where the overflow of abs wraps.
utc_offset_label(secs) == OffsetLabelFrom(secs, I32WrappingAbs(secs))

(***************************************************************************)
(* chrono at the places the program uses it.                               *)
(***************************************************************************)
SecondsPerDay == 86400

\* FixedOffset::east_opt(secs).unwrap_or_else(|| FixedOffset::east_opt(0).unwrap())
\* east_opt is None unless -86400 < secs < 86400.
FixedOffsetOrUtc(secs) ==
    IF -SecondsPerDay < secs /\ secs < SecondsPerDay THEN secs ELSE 0

\* DateTime::from_timestamp(dt, 0).with_timezone(&offset).date_naive()
date_naive(dt, offset) == (dt + offset) \div SecondsPerDay

\* .format("%d-%m-%Y %H:%M") of the local time: date, hour and minute.
FormatLocal(dt, offset) ==
    LET t == dt + offset
    IN  [date |-> t \div SecondsPerDay,
         hour |-> (t % SecondsPerDay) \div 3600,
         minute |-> (t % 3600) \div 60]

(***************************************************************************)
(* fetch_and_summarize_forecast, lines 247-295.                            *)
(***************************************************************************)
ForecastDayLimit == 5
F64Infinity == 1000000000   \* above every temperature of the model

\* Lines 253-262: the day key, Celsius temperature and label of one entry.
SampleOf(entry, offset, u) ==
    [day |-> date_naive(entry.dt, offset),
     temp |-> to_celsius(entry.main.temp, u),
     cond |-> ConditionOf(entry.weather)]

\* Line 264: by_day.entry(day_key).or_default().push((temp_c, cond))
PushSample(map, s) ==
    LET pair == [temp |-> s.temp, cond |-> s.cond]
    IN  IF s.day \in DOMAIN map
        THEN [map EXCEPT ![s.day] = Append(@, pair)]
        ELSE [d \in DOMAIN map \cup {s.day} |->
                 IF d = s.day THEN <<pair>> ELSE map[d]]

\* Lines 267-268: the keys of the map in ascending order.
RECURSIVE SortedKeys(_)
SortedKeys(S) ==
    IF S = {} THEN <<>> ELSE <<SetMin(S)>> \o SortedKeys(S \ {SetMin(S)})

\* Iterator::take
Take(s, n) == SubSeq(s, 1, IF Len(s) < n THEN Len(s) ELSE n)

F64Min(a, b) == IF a < b THEN a ELSE b
F64Max(a, b) == IF a > b THEN a ELSE b

\* Lines 272-275: the fold of (min, max) over the samples of a day.
RECURSIVE FoldMinMax(_, _)
FoldMinMax(samples, acc) ==
    IF samples = <<>> THEN acc
    ELSE FoldMinMax(Tail(samples),
                    [mn |-> F64Min(acc.mn, Head(samples).temp),
                     mx |-> F64Max(acc.mx, Head(samples).temp)])

MinMaxOf(samples) == FoldMinMax(samples, [mn |-> F64Infinity, mx |-> -F64Infinity])

\* Lines 277-280: occurrences of each label among the samples of a day.
CountsOf(samples) ==
    [c \in {samples[i].cond : i \in 1..Len(samples)} |->
        Cardinality({i \in 1..Len(samples) : samples[i].cond = c})]

\* (mutant of MostCommonChoices: min_by_key in the place of max_by_key)
LeastCommonChoices(counts) ==
    IF DOMAIN counts = {} THEN {Unknown}
    ELSE {c \in DOMAIN counts : \A d \in DOMAIN counts : counts[c] <= counts[d]}

\* Lines 281-285: max_by_key over a HashMap returns the last maximum of an
\* iteration whose order is unspecified, so any label of maximal count; the
\* fallback "Unknown" is for an empty map.
MostCommonChoices(counts) ==
    IF DOMAIN counts = {} THEN {Unknown}
    ELSE {c \in DOMAIN counts : \A d \in DOMAIN counts : counts[d] <= counts[c]}

\* Lines 267-295: every Vec<ForecastDayOut> the second loop can build from
\* the map.
SummariesOf(map) ==
    LET keys == Take(SortedKeys(DOMAIN map), ForecastDayLimit)
        n == Len(keys)
        labels == UNION {MostCommonChoices(CountsOf(map[keys[i]])) : i \in 1..n}
        picks == {f \in [1..n -> labels] :
                     \A i \in 1..n : f[i] \in MostCommonChoices(CountsOf(map[keys[i]]))}
    IN  {[i \in 1..n |->
            [date |-> keys[i],
             min_c |-> MinMaxOf(map[keys[i]]).mn,
             max_c |-> MinMaxOf(map[keys[i]]).mx,
             condition |-> f[i]]] : f \in picks}

\* The whole of lines 247-295 on a parsed response: the possible results.
RECURSIVE GroupAll(_, _, _, _)
GroupAll(list, offset, u, map) ==
    IF list = <<>> THEN map
    ELSE GroupAll(Tail(list), offset, u, PushSample(map, SampleOf(Head(list), offset, u)))

EmptyMap == [d \in {} |-> <<>>]

Summarize(resp, u) ==
    SummariesOf(GroupAll(resp.list, FixedOffsetOrUtc(resp.city.timezone), u, EmptyMap))

(***************************************************************************)
(* build_current_out, lines 298-319.                                       *)
(***************************************************************************)
build_current_out(label, c, u) ==
    LET offset == FixedOffsetOrUtc(c.timezone)
    IN  [city |-> label,
         time_local |-> FormatLocal(c.dt, offset),
         utc_offset |-> utc_offset_label(c.timezone),
         temp_c |-> to_celsius(c.main.temp, u),
         humidity_pct |-> c.main.humidity,
         condition |-> ConditionOf(c.weather)]

(***************************************************************************)
(* main, lines 151-216: inputs.                                            *)
(***************************************************************************)
Paris == <<"P", ",", "F", "R">>
Tokyo == <<"T">>
Lyon == <<" ", "L", " ", ",", "F">>
CityQueries == {Paris, Tokyo, Lyon}

RECURSIVE SeqsUpTo(_, _)
SeqsUpTo(S, n) ==
    IF n = 0 THEN {<<>>}
    ELSE LET shorter == SeqsUpTo(S, n - 1)
         IN  shorter \cup {Append(q, x) : q \in shorter, x \in S}

BufferLimitCurrent == 8     \* .buffer_unordered(8), line 177
BufferLimitForecast == 8    \* .buffer_unordered(8), line 196

\* The city lists of the model: every list of 1..MaxCities queries, and the
\* lists of one repeated query that are longer than the window.
ShortConfigs == SeqsUpTo(CityQueries, MaxCities) \ {<<>>}
LongConfigs ==
    {[i \in 1..n |-> Paris] :
        n \in (BufferLimitCurrent + 1)..(BufferLimitCurrent + MaxExtra)}

Rain == <<"r", "a", "i", "n">>
RainUpper == <<"R", "a", "i", "n">>
Clear == <<"c", "l", "e", "a", "r">>

\* What the provider answers in the runs of main.
RunCurrentResp ==
    [dt |-> 80000, timezone |-> 7200,
     main |-> [temp |-> 1000, humidity |-> 40],
     weather |-> <<[description |-> Rain]>>]
RunForecastResp ==
    [city |-> [timezone |-> 7200],
     list |-> <<[dt |-> 90000, main |-> [temp |-> 2550],
                 weather |-> <<[description |-> Clear]>>],
                [dt |-> 80000, main |-> [temp |-> 1000],
                 weather |-> <<[description |-> Rain]>>],
                [dt |-> 0, main |-> [temp |-> -500], weather |-> <<>>],
                [dt |-> 100800, main |-> [temp |-> 1800],
                 weather |-> <<[description |-> Clear]>>]>>]

Units == {"metric", "imperial", "standard", "kelvin"}
Destinations == {"file", "stdout"}

\* The inputs of a run: the city list and the destination of the report.
RunInputs ==
    (ShortConfigs \X Destinations) \cup (LongConfigs \X {"stdout"})

\* What lines 246-295 can return for the provider's forecast, per unit system.
RunSummaries == [u \in Units |-> Summarize(RunForecastResp, u)]

Ok(v) == [ok |-> TRUE, val |-> v]
Err == [ok |-> FALSE, val |-> <<>>]

Request(endpoint, i) == [endpoint |-> endpoint, idx |-> i]

(***************************************************************************)
(* main: the two passes.                                                   *)
(***************************************************************************)
\* (mutant of CanIssue: a stream that buffers without a limit)
CanIssueUnbounded(issued, limit) == issued < Len(cities)

\* buffer_unordered pulls the next future from the stream while fewer than
\* its limit are in progress and the stream is not exhausted.
CanIssue(issued, limit) ==
    issued < Len(cities) /\ Cardinality(inflight) < limit

\* (mutant of CollectResult: the failed tasks are dropped, as filter_map would)
CollectResultSkippingErrors(results) ==
    LET oks == SelectSeq(results, LAMBDA r : r.ok)
    IN  Ok([i \in 1..Len(oks) |-> oks[i].val])

\* Lines 180-181 and 199-200: .into_iter().collect::<Result<Vec<_>, _>>()
\* is the first Err if there is one, else the Vec of the values in order.
CollectResult(results) ==
    IF \E i \in 1..Len(results) : ~results[i].ok
    THEN Err
    ELSE Ok([i \in 1..Len(results) |-> results[i].val])

\* (mutant of ForecastPassRunning: both streams are polled together)
ForecastPassEager == pc \in {"current", "forecast"}

\* Line 184: the forecast stream is built only once line 181 has returned Ok.
ForecastPassRunning == pc = "forecast"

\* Lines 165-177: the stream polls its source first: one more city is taken,
\* its future created and its request sent.
IssueCurrent ==
    /\ pc = "current"
    /\ CanIssue(cur_issued, BufferLimitCurrent)
    /\ cur_issued' = cur_issued + 1
    /\ inflight' = inflight \cup {Request("weather", cur_issued + 1)}
    /\ UNCHANGED <<cities, args_out, pc, fc_issued, cur_results, fc_results,
                   current, forecasts, stdout, file>>
    /\ UNCHANGED notRunVars

\* Lines 172-175, 220-229: a request of the current pass completes, with an
\* error (transport, status, parse) or with a response; the stream yields
\* the task's result, which collect pushes (line 178).
CompleteCurrent(i, failed) ==
    /\ pc = "current"
    /\ ~CanIssue(cur_issued, BufferLimitCurrent)
    /\ Request("weather", i) \in inflight
    /\ inflight' = inflight \ {Request("weather", i)}
    /\ cur_results' = Append(cur_results,
          IF failed THEN Err
          ELSE Ok(build_current_out(label_from_query(cities[i]), RunCurrentResp, units)))
    /\ UNCHANGED <<cities, args_out, pc, cur_issued, fc_issued, fc_results,
                   current, forecasts, stdout, file>>
    /\ UNCHANGED notRunVars

\* Lines 178-181: the stream is exhausted; the results are turned into one
\* Result, and ? returns the error from main.
CollectCurrent ==
    /\ pc = "current"
    /\ cur_issued = Len(cities)
    /\ inflight = {}
    /\ LET r == CollectResult(cur_results)
       IN  IF r.ok
           THEN current' = r.val /\ pc' = "forecast"
           ELSE pc' = "failed" /\ UNCHANGED current
    /\ UNCHANGED <<cities, args_out, cur_issued, fc_issued, inflight, cur_results,
                   fc_results, forecasts, stdout, file>>
    /\ UNCHANGED notRunVars

\* Lines 184-196
IssueForecast ==
    /\ ForecastPassRunning
    /\ CanIssue(fc_issued, BufferLimitForecast)
    /\ fc_issued' = fc_issued + 1
    /\ inflight' = inflight \cup {Request("forecast", fc_issued + 1)}
    /\ UNCHANGED <<cities, args_out, pc, cur_issued, cur_results, fc_results,
                   current, forecasts, stdout, file>>
    /\ UNCHANGED notRunVars

\* Lines 191-194, 231-296
CompleteForecast(i, failed) ==
    /\ ForecastPassRunning
    /\ ~CanIssue(fc_issued, BufferLimitForecast)
    /\ Request("forecast", i) \in inflight
    /\ inflight' = inflight \ {Request("forecast", i)}
    /\ \E days \in RunSummaries[units] :
          fc_results' = Append(fc_results,
              IF failed THEN Err
              ELSE Ok([city |-> label_from_query(cities[i]), days |-> days]))
    /\ UNCHANGED <<cities, args_out, pc, cur_issued, fc_issued, cur_results,
                   current, forecasts, stdout, file>>
    /\ UNCHANGED notRunVars

\* Lines 197-200
CollectForecast ==
    /\ ForecastPassRunning
    /\ fc_issued = Len(cities)
    /\ inflight = {}
    /\ LET r == CollectResult(fc_results)
       IN  IF r.ok
           THEN forecasts' = r.val /\ pc' = "emit"
           ELSE pc' = "failed" /\ UNCHANGED forecasts
    /\ UNCHANGED <<cities, args_out, cur_issued, fc_issued, inflight, cur_results,
                   fc_results, current, stdout, file>>
    /\ UNCHANGED notRunVars

\* Lines 202-206; generated_at_utc is left out.
Output == [current |-> current, forecasts |-> forecasts]

\* Lines 208-215: the report goes to the file, whose write can fail, or to
\* standard output.
Emit(written) ==
    /\ pc = "emit"
    /\ IF args_out = "file"
       THEN IF written
            THEN file' = Append(file, Output) /\ pc' = "done" /\ UNCHANGED stdout
            ELSE pc' = "failed" /\ UNCHANGED <<file, stdout>>
       ELSE stdout' = Append(stdout, Output) /\ pc' = "done" /\ UNCHANGED file
    /\ UNCHANGED <<cities, args_out, cur_issued, fc_issued, inflight, cur_results,
                   fc_results, current, forecasts>>
    /\ UNCHANGED notRunVars

AggIdle ==
    /\ fc = None
    /\ agg_pc = "idle"
    /\ agg_rest = <<>>
    /\ by_day = EmptyMap
    /\ days_out = <<>>
CurIdle == cur = None /\ cur_pc = "idle" /\ cur_out = None
LabelIdle == label_secs = 0 /\ build = "release" /\ label_pc = "idle" /\ label_out = <<>>

Init ==
    /\ \E input \in RunInputs : cities = input[1] /\ args_out = input[2]
    /\ units = "metric"
    /\ pc = "current"
    /\ cur_issued = 0
    /\ fc_issued = 0
    /\ inflight = {}
    /\ cur_results = <<>>
    /\ fc_results = <<>>
    /\ current = <<>>
    /\ forecasts = <<>>
    /\ stdout = <<>>
    /\ file = <<>>
    /\ AggIdle
    /\ CurIdle
    /\ LabelIdle

\* The steps main takes by itself.
ProgramStep ==
    \/ IssueCurrent
    \/ CollectCurrent
    \/ IssueForecast
    \/ CollectForecast
    \/ \E written \in BOOLEAN : Emit(written)

\* The steps that wait for the provider: the client of line 162 is built
\* without a timeout, so nothing in the program makes them happen.
ProviderStep ==
    \/ \E i \in 1..Len(cities), failed \in BOOLEAN : CompleteCurrent(i, failed)
    \/ \E i \in 1..Len(cities), failed \in BOOLEAN : CompleteForecast(i, failed)

Next == ProgramStep \/ ProviderStep

Spec == Init /\ [][Next]_vars

\* main is the only task of the runtime and is polled whenever it can make
\* progress: its own steps are weakly fair, the provider's answers are not.
FairSpec == Spec /\ WF_vars(ProgramStep)

(***************************************************************************)
(* Properties of main.                                                     *)
(***************************************************************************)
\* The document of a finished run.
Emitted == IF args_out = "file" THEN file[1] ELSE stdout[1]

CurrentFetchFailed == \E i \in 1..Len(cur_results) : ~cur_results[i].ok
ForecastFetchFailed == \E i \in 1..Len(fc_results) : ~fc_results[i].ok

InFlight(endpoint) == {r \in inflight : r.endpoint = endpoint}

\* C1: when a run succeeds, the i-th entry of the report's current list and
\* the i-th entry of its forecasts list are those of the i-th configured
\* city, whatever the order in which the fetches completed.
OrderMatchesConfig ==
    pc = "done" =>
        \A i \in 1..Len(cities) :
            /\ Emitted.current[i].city = label_from_query(cities[i])
            /\ Emitted.forecasts[i].city = label_from_query(cities[i])

\* C2: once the fetch of a city has failed in either pass, no report is
\* written or printed, and the run does not leave the pass except to end in
\* error: it is still draining that pass or has failed.
FailureMeansNoReport ==
    /\ CurrentFetchFailed \/ ForecastFetchFailed => file = <<>> /\ stdout = <<>>
    /\ CurrentFetchFailed => pc \in {"current", "failed"}
    /\ ForecastFetchFailed => pc \in {"forecast", "failed"}

\* C2 witness: a run that ended in error because one forecast fetch failed
\* while the forecasts of other cities had succeeded.
FailedAmongSuccesses ==
    /\ pc = "failed"
    /\ \E i \in 1..Len(fc_results) : ~fc_results[i].ok
    /\ \E i \in 1..Len(fc_results) : fc_results[i].ok
    /\ Len(fc_results) = Len(cities)

\* C3: in each pass at most 8 requests are issued and not yet completed.
WindowBound ==
    /\ Cardinality(InFlight("weather")) <= 8
    /\ Cardinality(InFlight("forecast")) <= 8

\* C3 witness: the window of the forecast pass is full while a city waits.
WindowFull ==
    /\ Cardinality(InFlight("forecast")) = 8
    /\ fc_issued < Len(cities)

\* C9: a forecast request exists only when every current-conditions request
\* has completed and all of them succeeded; none is in flight together with
\* a current-conditions request, and none is issued after a failed pass.
ForecastAfterCurrent ==
    (fc_issued > 0 \/ InFlight("forecast") # {}) =>
        /\ InFlight("weather") = {}
        /\ Len(cur_results) = Len(cities)
        /\ \A i \in 1..Len(cur_results) : cur_results[i].ok

\* C9 witness: forecast requests are in flight.
ForecastInFlight ==
    /\ Cardinality(InFlight("forecast")) >= 2
    /\ fc_issued = Len(cities)

\* C8: every run terminates, with a report or with an error.
RunTerminates == <>(pc \in {"done", "failed"})

(***************************************************************************)
(* fetch_and_summarize_forecast as a state machine: the loop of lines      *)
(* 252-265, one entry a step, then lines 267-295.                          *)
(***************************************************************************)
notAggVars == <<runVars, curVars, labelVars>>

RunIdle ==
    /\ cities = <<>>
    /\ args_out = "stdout"
    /\ pc = "idle"
    /\ cur_issued = 0
    /\ fc_issued = 0
    /\ inflight = {}
    /\ cur_results = <<>>
    /\ fc_results = <<>>
    /\ current = <<>>
    /\ forecasts = <<>>
    /\ stdout = <<>>
    /\ file = <<>>

\* The forecast entries of the model: two instants either side of midnight
\* UTC, each with one of four readings.
AggInstants == {80000, 90000}
AggReadings ==
    {[temp |-> 1000, weather |-> <<[description |-> Rain]>>],
     [temp |-> 1000, weather |-> <<[description |-> RainUpper]>>],
     [temp |-> 2550, weather |-> <<[description |-> Clear], [description |-> Rain]>>],
     [temp |-> -500, weather |-> <<>>]}
AggEntries ==
    {[dt |-> t, main |-> [temp |-> r.temp], weather |-> r.weather] :
        t \in AggInstants, r \in AggReadings}

\* One entry at noon UTC of day k.
NoonEntry(k) ==
    [dt |-> k * SecondsPerDay + 43200, main |-> [temp |-> 1000 + 100 * k],
     weather |-> <<[description |-> Clear]>>]

\* Lists of n entries over the days 0..n-1: ascending, descending, and in
\* steps of two days (with repeated days when n is even).
CalendarLists ==
    UNION {{[i \in 1..n |-> NoonEntry(i - 1)],
            [i \in 1..n |-> NoonEntry(n - i)],
            [i \in 1..n |-> NoonEntry((2 * i) % n)]} : n \in 1..MaxDays}

ForecastLists == SeqsUpTo(AggEntries, MaxSamples) \cup CalendarLists

\* city.timezone values: UTC, UTC+2, UTC-4:30, and a day, which FixedOffset
\* does not accept.
AggOffsets == {0, 7200, -16200, 86400}
AggUnits == {"metric", "imperial"}

InitAgg ==
    /\ \E tz \in AggOffsets, list \in ForecastLists :
          fc = [city |-> [timezone |-> tz], list |-> list]
    /\ units \in AggUnits
    /\ agg_pc = "group"
    /\ agg_rest = fc.list
    /\ by_day = EmptyMap
    /\ days_out = <<>>
    /\ RunIdle
    /\ CurIdle
    /\ LabelIdle

\* Lines 252-265: one turn of the loop over fc.list.
GroupEntry ==
    /\ agg_pc = "group"
    /\ agg_rest # <<>>
    /\ by_day' = PushSample(by_day,
          SampleOf(Head(agg_rest), FixedOffsetOrUtc(fc.city.timezone), units))
    /\ agg_rest' = Tail(agg_rest)
    /\ UNCHANGED <<fc, units, agg_pc, days_out>>
    /\ UNCHANGED notAggVars

\* Lines 267-295: sort, take 5, summarise each day, return.
SummarizeDays ==
    /\ agg_pc = "group"
    /\ agg_rest = <<>>
    /\ days_out' \in SummariesOf(by_day)
    /\ agg_pc' = "done"
    /\ UNCHANGED <<fc, units, agg_rest, by_day>>
    /\ UNCHANGED notAggVars

NextAgg == GroupEntry \/ SummarizeDays

SpecAgg == InitAgg /\ [][NextAgg]_vars

(***************************************************************************)
(* Properties of the daily aggregation.                                    *)
(***************************************************************************)
EntryIndices == 1..Len(fc.list)

\* The local calendar date of a sample: its instant plus the offset of the
\* location.
LocalDateOf(k) == (fc.list[k].dt + fc.city.timezone) \div 86400

\* The date under which the aggregation grouped a sample.
GroupDateOf(k) == date_naive(fc.list[k].dt, FixedOffsetOrUtc(fc.city.timezone))

CelsiusOf(k) == to_celsius(fc.list[k].main.temp, units)
LabelOf(k) == ConditionOf(fc.list[k].weather)

DatesOut == [i \in 1..Len(days_out) |-> days_out[i].date]

OffsetAccepted == -86400 < fc.city.timezone /\ fc.city.timezone < 86400

\* C4: the dates of the summaries are the ascending distinct local dates of
\* the samples, cut to the first 5: strictly increasing, the earliest days,
\* min(number of distinct local days, 5) of them.
DatesAreFirstLocalDays ==
    agg_pc = "done" =>
        LET local == {LocalDateOf(k) : k \in EntryIndices}
        IN  /\ DatesOut = Take(SortedKeys(local), 5)
            /\ Len(days_out) = IF Cardinality(local) < 5 THEN Cardinality(local) ELSE 5
            /\ \A i \in 1..Len(days_out) - 1 : DatesOut[i] < DatesOut[i + 1]

\* The statement of C4 for the offsets FixedOffset accepts.
DatesAreFirstLocalDaysAccepted == OffsetAccepted => DatesAreFirstLocalDays

\* C5: min_c and max_c of a summary are the minimum and the maximum of the
\* Celsius temperatures of exactly the samples whose local date (instant
\* plus offset) is that day; there is such a sample, and min_c <= max_c.
MinMaxOfLocalDay ==
    agg_pc = "done" =>
        \A i \in 1..Len(days_out) :
            LET temps == {CelsiusOf(k) :
                             k \in {j \in EntryIndices : LocalDateOf(j) = days_out[i].date}}
            IN  /\ temps # {}
                /\ days_out[i].min_c = SetMin(temps)
                /\ days_out[i].max_c = SetMax(temps)
                /\ days_out[i].min_c <= days_out[i].max_c

\* The statement of C5 for the offsets FixedOffset accepts.
MinMaxOfLocalDayAccepted == OffsetAccepted => MinMaxOfLocalDay

\* Occurrences of a label among the samples grouped under a date.
Occurrences(date, label) ==
    Cardinality({k \in EntryIndices : GroupDateOf(k) = date /\ LabelOf(k) = label})

\* C6: the condition of a summary is a label of one of that day's samples,
\* and no label occurs in more of that day's samples.
DominantCondition ==
    agg_pc = "done" =>
        \A i \in 1..Len(days_out) :
            /\ Occurrences(days_out[i].date, days_out[i].condition) >= 1
            /\ \A k \in EntryIndices :
                  Occurrences(days_out[i].date, LabelOf(k))
                      <= Occurrences(days_out[i].date, days_out[i].condition)

\* C6 witness: a summarised day in which one label occurs twice and another
\* once, the sample without a description among them.
MajorityOverMinority ==
    /\ agg_pc = "done"
    /\ \E i \in 1..Len(days_out) :
          /\ Occurrences(days_out[i].date, days_out[i].condition) = 2
          /\ \E k \in EntryIndices :
                Occurrences(days_out[i].date, LabelOf(k)) = 1

(***************************************************************************)
(* build_current_out as a state machine.                                   *)
(***************************************************************************)
notCurVars == <<runVars, aggVars, labelVars>>

\* The timezone values of the model: offsets FixedOffset accepts, up to the
\* last minute of its range, and offsets of a day and more.
CurInstants == {80000, 90000}
CurOffsets ==
    {0, 7200, -16200, 19800, -3600, 86340, -86340, 86400, -86400, 90000}
CurReadings ==
    {[main |-> [temp |-> 1000, humidity |-> 40],
      weather |-> <<[description |-> Rain]>>],
     [main |-> [temp |-> 29315, humidity |-> 0], weather |-> <<>>]}

InitCur ==
    /\ \E t \in CurInstants, tz \in CurOffsets, r \in CurReadings :
          cur = [dt |-> t, timezone |-> tz, main |-> r.main, weather |-> r.weather]
    /\ units \in Units
    /\ cur_pc = "start"
    /\ cur_out = None
    /\ RunIdle
    /\ AggIdle
    /\ LabelIdle

\* Lines 298-319
BuildCurrentOut ==
    /\ cur_pc = "start"
    /\ cur_out' = build_current_out(label_from_query(Lyon), cur, units)
    /\ cur_pc' = "built"
    /\ UNCHANGED <<cur, units>>
    /\ UNCHANGED notCurVars

NextCur == BuildCurrentOut

SpecCur == InitCur /\ [][NextCur]_vars

(***************************************************************************)
(* utc_offset_label as a state machine.                                    *)
(***************************************************************************)
notLabelVars == <<runVars, aggVars, curVars, units>>

MaxQuarterHours == 60   \* the offsets of the model reach this many quarters of an hour

\* The arguments of the model: the quarter hours either side of zero, some
\* offsets that are no whole minutes, and the ends of i32.
LabelArgs ==
    {900 * k : k \in -MaxQuarterHours..MaxQuarterHours}
        \cup {59, -59, 61, -3599, 3661, 86399, -86400, I32Max, I32Min}

InitLabel ==
    /\ label_secs \in LabelArgs
    /\ build \in {"debug", "release"}
    /\ label_pc = "start"
    /\ label_out = <<>>
    /\ units = "metric"
    /\ RunIdle
    /\ AggIdle
    /\ CurIdle

\* Lines 335-341, in a build and on an argument where abs does not panic.
FormatLabel ==
    /\ label_pc = "start"
    /\ ~(build = "debug" /\ I32AbsOverflows(label_secs))
    /\ label_out' = utc_offset_label(label_secs)
    /\ label_pc' = "returned"
    /\ UNCHANGED <<label_secs, build>>
    /\ UNCHANGED notLabelVars

\* Line 337 in a debug build: "attempt to negate with overflow".
PanicOnAbs ==
    /\ label_pc = "start"
    /\ build = "debug"
    /\ I32AbsOverflows(label_secs)
    /\ label_pc' = "panicked"
    /\ UNCHANGED <<label_secs, build, label_out>>
    /\ UNCHANGED notLabelVars

NextLabel == FormatLabel \/ PanicOnAbs

SpecLabel == InitLabel /\ [][NextLabel]_vars

(***************************************************************************)
(* Properties of utc_offset_label and build_current_out.                   *)
(***************************************************************************)
\* |o| div 3600 and (|o| mod 3600) div 60, for every o of 32 bits.
AbsHours(o) == IF o >= 0 THEN o \div 3600 ELSE -((o + 3599) \div 3600)
AbsMinutes(o) ==
    IF o >= 0 THEN (o % 3600) \div 60 ELSE (-(o + 3600 * AbsHours(o))) \div 60

\* The label the specification describes for offset o.
DescribedLabel(o) ==
    <<"U", "T", "C", IF o >= 0 THEN "+" ELSE "-">> \o NatDisplay(AbsHours(o))
        \o (IF AbsMinutes(o) = 0 THEN <<>>
            ELSE <<":", Digit(AbsMinutes(o) \div 10), Digit(AbsMinutes(o) % 10)>>)

\* C7: for every 32-bit offset the label is "UTC", the sign, |offset| div
\* 3600 and, when not zero, ':' and the two digits of (|offset| mod 3600)
\* div 60.
LabelAsDescribed ==
    label_pc # "start" =>
        /\ label_pc = "returned"
        /\ label_out = DescribedLabel(label_secs)

\* The statement of C7 for the offsets above i32::MIN.
LabelAsDescribedAboveMin == label_secs # I32Min => LabelAsDescribed

\* The examples of C7.
LabelExamples ==
    /\ utc_offset_label(0) = <<"U", "T", "C", "+", "0">>
    /\ utc_offset_label(7200) = <<"U", "T", "C", "+", "2">>
    /\ utc_offset_label(-16200) = <<"U", "T", "C", "-", "4", ":", "3", "0">>

\* Reading a label UTC(+|-)H[:MM] back.
DigitChars == {Digit(d) : d \in 0..9}
DigitValue(c) == CHOOSE d \in 0..9 : Digit(d) = c
IsNumber(ds) == ds # <<>> /\ \A i \in 1..Len(ds) : ds[i] \in DigitChars

RECURSIVE NumberValue(_)
NumberValue(ds) ==
    IF ds = <<>> THEN 0
    ELSE 10 * NumberValue(SubSeq(ds, 1, Len(ds) - 1)) + DigitValue(ds[Len(ds)])

LabelBody(l) == SubSeq(l, 5, Len(l))
LabelColons(l) == {i \in 1..Len(LabelBody(l)) : LabelBody(l)[i] = ":"}

WellFormedLabel(l) ==
    /\ Len(l) >= 5
    /\ SubSeq(l, 1, 3) = <<"U", "T", "C">>
    /\ l[4] \in {"+", "-"}
    /\ IF LabelColons(l) = {}
       THEN IsNumber(LabelBody(l))
       ELSE /\ LabelColons(l) = {Len(LabelBody(l)) - 2}
            /\ IsNumber(SubSeq(LabelBody(l), 1, Len(LabelBody(l)) - 3))
            /\ IsNumber(SubSeq(LabelBody(l), Len(LabelBody(l)) - 1, Len(LabelBody(l))))

\* The offset, in seconds, a well-formed label denotes.
DenotedOffset(l) ==
    LET body == LabelBody(l)
        n == Len(body)
        magnitude ==
            IF LabelColons(l) = {}
            THEN 3600 * NumberValue(body)
            ELSE 3600 * NumberValue(SubSeq(body, 1, n - 3))
                     + 60 * NumberValue(SubSeq(body, n - 1, n))
    IN  IF l[4] = "-" THEN -magnitude ELSE magnitude

\* C10: the utc_offset label of a CurrentReport denotes the offset that was
\* added to the UTC instant to compute its time_local.
LabelDenotesAppliedOffset ==
    cur_pc = "built" =>
        /\ WellFormedLabel(cur_out.utc_offset)
        /\ cur_out.time_local = FormatLocal(cur.dt, DenotedOffset(cur_out.utc_offset))

\* The statement of C10 for the offsets FixedOffset accepts.
LabelDenotesAppliedOffsetAccepted ==
    (-86400 < cur.timezone /\ cur.timezone < 86400) => LabelDenotesAppliedOffset

=============================================================================
